---------------------------- MODULE Spec2Model ----------------------------
(***************************************************************************)
(* AwsSimpleStorageService (src/src/lib/AwsSimpleStorageService.ts): the   *)
(* directory emulation over a flat object store.  Paths and keys are       *)
(* sequences of one-character strings.  The store is the S3 bucket the     *)
(* client talks to; every store request is one step of the machine and a   *)
(* call of an async method is a frame on the stack.                        *)
(***************************************************************************)
EXTENDS Integers, Sequences, FiniteSets, TLC

(***************************************************************************)
(* Bounds of the model.                                                    *)
(***************************************************************************)
\* Page size of the bucket listing: S3 answers at most this many entries
\* per ListObjectsV2 call (1000 in S3; the code never sets MaxKeys).
MaxKeys == 3
\* Deepest stack of pending async calls that is followed.
MaxStack == 8
\* Longest request log that is recorded.
MaxLog == 40
\* Number of public calls made one after the other in one behaviour.
MaxOps == 2
\* Longest path normalizePath is applied to on its own.
MaxLen == 4
\* Number of explicit calls of configure in one behaviour.
MaxConfigures == 2

\* Most requests that are followed while their answers are outstanding.
MaxPending == 2

\* Most changes other clients make to the bucket.
MaxOthers == 1

(***************************************************************************)
(* The values of the model.  Every record is built by one of these         *)
(* constructors.                                                           *)
(***************************************************************************)
\* the value of an argument or field that is left out
UNDEFINED == <<"undefined">>
\* ContinuationToken of a first request: none
NoToken == 0

\* ListObjectsV2CommandOutput
Listing(contents, prefixes, truncated, token, next) ==
    [Contents |-> contents, CommonPrefixes |-> prefixes, IsTruncated |-> truncated,
     ContinuationToken |-> token, NextContinuationToken |-> next]

\* the listing a frame holds before it has listed anything
NoListing == Listing(<< >>, << >>, FALSE, NoToken, NoToken)

\* the frame of a call: the method, the await it stands at and its locals
Frame(fn, a, b, del) ==
    [fn |-> fn, a |-> a, b |-> b, del |-> del, pc |-> "begin", arr |-> FALSE,
     keys |-> << >>, tok |-> NoToken, data |-> NoListing, i |-> 1,
     out |-> << >>, body |-> 0, wait |-> FALSE]

\* the frame of a call whose argument is an array of keys
FrameKeys(fn, keys) == [Frame(fn, << >>, << >>, FALSE) EXCEPT !.arr = TRUE, !.keys = keys]

\* a request to the bucket
Request(op, key, keys, tok, body) ==
    [keys |-> keys, tok |-> tok, body |-> body, op |-> op, key |-> key]

\* values a call ends with
None == [kind |-> "none"]
Null == [kind |-> "null"]
Void == [kind |-> "void"]
Bool(value) == [kind |-> "bool", value |-> value]
Output(kind, value) == [kind |-> kind, value |-> value]
Failure(name, message) == [kind |-> "error", name |-> name, message |-> message]

\* the bucket after a request and its answer
Response(st, answer) == [out |-> answer, store |-> st]

\* IAwsSimpleStorageServiceNormalizedPath
NormalizedPath(directory, path) == [directory |-> directory, path |-> path]

\* an entry of a listing: a key, or a common prefix
Entry(key, prefix) == [key |-> key, prefix |-> prefix]

\* a public call that ended and what it ended with
Ended(c, r) == [call |-> c, ret |-> r]

(***************************************************************************)
(* Strings.                                                                *)
(***************************************************************************)
SLASH == "/"
BACKSLASH == "\\"
SPACE == " "
DOT == "."
DOLLAR == "$"
AMPERSAND == "&"
\* the grave accent and the apostrophe, by their names
BACKTICK == "grave"
QUOTE == "apostrophe"

\* UTF-8 code of a character: the bucket lists keys in this order.
CharCode(c) ==
    CASE c = SPACE -> 32
      [] c = DOT -> 46
      [] c = SLASH -> 47
      [] c = BACKSLASH -> 92
      [] c = "a" -> 97
      [] c = "b" -> 98
      [] c = "d" -> 100
      [] c = "s" -> 115
      [] c = "u" -> 117
      [] c = "x" -> 120
      [] OTHER -> 122

\* String.prototype.startsWith
startsWith(s, p) ==
    /\ Len(p) <= Len(s)
    /\ \A i \in 1..Len(p) : s[i] = p[i]

\* String.prototype.endsWith with a one-character argument
endsWith(s, c) == Len(s) > 0 /\ s[Len(s)] = c

\* String.prototype.slice(from) with a 0-based start
slice(s, from) == SubSeq(s, from + 1, Len(s))

\* first index (1-based) at which p occurs in s, 0 when it does not occur
indexOf(s, p) ==
    LET hits == {i \in 1..(Len(s) - Len(p) + 1) :
                    \A j \in 1..Len(p) : s[i + j - 1] = p[j]}
    IN  IF hits = {} THEN 0 ELSE CHOOSE i \in hits : \A j \in hits : i <= j

\* the replacement of String.prototype.replace with its patterns expanded:
\* $$ is a dollar, $& what matched, $` what precedes and $' what follows
\* the match; there are no groups, a dollar before anything else stays
RECURSIVE GetSubstitution(_, _, _, _)
GetSubstitution(matched, before, after, r) ==
    IF Len(r) = 0 THEN << >>
    ELSE IF r[1] = DOLLAR /\ Len(r) > 1 /\ r[2] = DOLLAR
    THEN <<DOLLAR>> \o GetSubstitution(matched, before, after, SubSeq(r, 3, Len(r)))
    ELSE IF r[1] = DOLLAR /\ Len(r) > 1 /\ r[2] = AMPERSAND
    THEN matched \o GetSubstitution(matched, before, after, SubSeq(r, 3, Len(r)))
    ELSE IF r[1] = DOLLAR /\ Len(r) > 1 /\ r[2] = BACKTICK
    THEN before \o GetSubstitution(matched, before, after, SubSeq(r, 3, Len(r)))
    ELSE IF r[1] = DOLLAR /\ Len(r) > 1 /\ r[2] = QUOTE
    THEN after \o GetSubstitution(matched, before, after, SubSeq(r, 3, Len(r)))
    ELSE <<r[1]>> \o GetSubstitution(matched, before, after, Tail(r))

\* String.prototype.replace(pattern, replacement) with a string pattern:
\* only the first occurrence is substituted.
replace(s, p, r) ==
    LET i == indexOf(s, p)
    IN  IF i = 0 THEN s
        ELSE SubSeq(s, 1, i - 1)
                \o GetSubstitution(p, SubSeq(s, 1, i - 1),
                                   SubSeq(s, i + Len(p), Len(s)), r)
                \o SubSeq(s, i + Len(p), Len(s))

\* String.prototype.trim for the blank
RECURSIVE trimStart(_)
trimStart(s) == IF Len(s) > 0 /\ s[1] = SPACE THEN trimStart(Tail(s)) ELSE s

RECURSIVE trimEnd(_)
trimEnd(s) ==
    IF Len(s) > 0 /\ s[Len(s)] = SPACE THEN trimEnd(SubSeq(s, 1, Len(s) - 1)) ELSE s

trim(s) == trimEnd(trimStart(s))

\* s.replace(/\/|\\+/g, '/'): every slash stays a slash, every run of
\* backslashes becomes one slash.
RECURSIVE replaceSlashes(_)
replaceSlashes(s) ==
    IF Len(s) = 0 THEN << >>
    ELSE IF s[1] = BACKSLASH
         THEN IF Len(s) > 1 /\ s[2] = BACKSLASH
              THEN replaceSlashes(Tail(s))
              ELSE <<SLASH>> \o replaceSlashes(Tail(s))
         ELSE <<s[1]>> \o replaceSlashes(Tail(s))

\* the segments of a path between its slashes
RECURSIVE split(_)
split(s) ==
    LET i == indexOf(s, <<SLASH>>)
    IN  IF i = 0 THEN <<s>>
        ELSE <<SubSeq(s, 1, i - 1)>> \o split(SubSeq(s, i + 1, Len(s)))

RECURSIVE join(_)
join(segs) ==
    IF Len(segs) = 0 THEN << >>
    ELSE IF Len(segs) = 1 THEN segs[1]
    ELSE segs[1] \o <<SLASH>> \o join(Tail(segs))

\* normalizeString of node's path module: drops empty and "." segments and
\* resolves ".." against the segment before it.
RECURSIVE normalizeString(_, _, _)
normalizeString(segs, allowAboveRoot, out) ==
    IF Len(segs) = 0 THEN out
    ELSE LET seg == segs[1]
             rest == Tail(segs)
         IN  IF seg = << >> \/ seg = <<DOT>>
             THEN normalizeString(rest, allowAboveRoot, out)
             ELSE IF seg = <<DOT, DOT>>
             THEN IF Len(out) > 0 /\ out[Len(out)] # <<DOT, DOT>>
                  THEN normalizeString(rest, allowAboveRoot, SubSeq(out, 1, Len(out) - 1))
                  ELSE IF allowAboveRoot
                       THEN normalizeString(rest, allowAboveRoot, Append(out, seg))
                       ELSE normalizeString(rest, allowAboveRoot, out)
             ELSE normalizeString(rest, allowAboveRoot, Append(out, seg))

\* path.normalize (posix)
pathNormalize(p) ==
    IF Len(p) = 0 THEN <<DOT>>
    ELSE LET isAbsolute == p[1] = SLASH
             trailingSeparator == p[Len(p)] = SLASH
             body == join(normalizeString(split(p), ~isAbsolute, << >>))
         IN  IF Len(body) = 0
             THEN IF isAbsolute THEN <<SLASH>>
                  ELSE IF trailingSeparator THEN <<DOT, SLASH>> ELSE <<DOT>>
             ELSE (IF isAbsolute THEN <<SLASH>> ELSE << >>)
                    \o body
                    \o (IF trailingSeparator THEN <<SLASH>> ELSE << >>)

\* the flag normalizePath is called with: true, false, or left out
DirectoryFlags == {"true", "false", "undefined"}

\* adding the trailing slash of a directory (line 669 of normalizePath)
normalizePath_appendSlash(p) == replaceSlashes(pathNormalize(p \o <<SLASH>>))

normalizePath(objectPath, directory) ==
    LET first == replaceSlashes(objectPath)
        isDir == \/ directory = "true"
                 \/ ((directory = "true" \/ endsWith(first, SLASH) \/ endsWith(objectPath, SLASH))
                        /\ directory # "true")
        norm == replaceSlashes(pathNormalize(trim(first)))
        stripped == IF startsWith(norm, <<SLASH>>) THEN slice(norm, 1) ELSE norm
        final == IF (directory = "true" \/ isDir \/ endsWith(objectPath, SLASH))
                        /\ ~endsWith(stripped, SLASH)
                 THEN normalizePath_appendSlash(stripped)
                 ELSE stripped
    IN  NormalizedPath(isDir, final)


(***************************************************************************)
(* The bucket: the object store behind S3.send (S3 of @aws-sdk/client-s3). *)
(* A bucket is a function from the keys it holds to their bodies.          *)
(***************************************************************************)
Min(x, y) == IF x <= y THEN x ELSE y

\* byte order of keys, the order of a bucket listing
KeyLess(k1, k2) ==
    \E i \in 1..(Min(Len(k1), Len(k2)) + 1) :
        /\ \A j \in 1..(i - 1) : k1[j] = k2[j]
        /\ \/ (i > Len(k1) /\ i <= Len(k2))
           \/ (i <= Len(k1) /\ i <= Len(k2) /\ CharCode(k1[i]) < CharCode(k2[i]))

RECURSIVE SortKeys(_)
SortKeys(S) ==
    IF S = {} THEN << >>
    ELSE LET m == CHOOSE k \in S : \A o \in S \ {k} : KeyLess(k, o)
         IN  <<m>> \o SortKeys(S \ {m})

\* the bucket without the keys of K
Without(st, K) == [k \in (DOMAIN st) \ K |-> st[k]]

\* the bucket with body written at key
With(st, key, body) ==
    [k \in (DOMAIN st) \cup {key} |-> IF k = key THEN body ELSE st[k]]

\* the keys of the bucket that start with prefix
KeysUnder(st, prefix) == {k \in DOMAIN st : startsWith(k, prefix)}

\* the entry a key is listed as under prefix with the delimiter "/": the key
\* itself, or the common prefix up to the first delimiter after the prefix
ListEntry(key, prefix, delimiter) ==
    LET rest == slice(key, Len(prefix))
        cut == IF delimiter = UNDEFINED THEN 0 ELSE indexOf(rest, <<SLASH>>)
    IN  IF cut = 0
        THEN Entry(key, FALSE)
        ELSE Entry(SubSeq(key, 1, Len(prefix) + cut), TRUE)

SelectKeys(entries, isPrefix) ==
    LET F[i \in 0..Len(entries)] ==
            IF i = 0 THEN << >>
            ELSE IF entries[i].prefix = isPrefix
                 THEN Append(F[i - 1], entries[i].key)
                 ELSE F[i - 1]
    IN  F[Len(entries)]

\* ListObjectsV2: one page of at most MaxKeys entries (keys and common
\* prefixes together, in key order), after the entries the token skips.
\* ContinuationToken echoes the token of the request; NextContinuationToken
\* is the token of the following page and is set only on a truncated page.
ListObjectsV2(st, prefix, delimiter, token) ==
    LET all == {ListEntry(k, prefix, delimiter) : k \in KeysUnder(st, prefix)}
        keys == SortKeys({e.key : e \in all})
        entries == [i \in 1..Len(keys) |-> CHOOSE e \in all : e.key = keys[i]]
        last == Min(token + MaxKeys, Len(entries))
        page == SubSeq(entries, token + 1, last)
        more == last < Len(entries)
    IN  Listing(SelectKeys(page, FALSE), SelectKeys(page, TRUE), more, token,
                IF more THEN last ELSE NoToken)

\* the pages a complete listing of prefix is made of
RECURSIVE PagesFrom(_, _, _)
PagesFrom(st, prefix, token) ==
    LET page == ListObjectsV2(st, prefix, <<SLASH>>, token)
    IN  IF page.IsTruncated
        THEN <<page>> \o PagesFrom(st, prefix, page.NextContinuationToken)
        ELSE <<page>>

\* what the bucket does with a request: its new content and its answer
Respond(st, req) ==
    CASE req.op = "Head" ->
            Response(st, IF req.key \in DOMAIN st
                         THEN Output("head", req.key)
                         ELSE Failure("NotFound", "NotFound"))
      [] req.op = "Get" ->
            Response(st, IF req.key \in DOMAIN st
                         THEN Output("get", st[req.key])
                         ELSE Failure("NoSuchKey", "NoSuchKey"))
      [] req.op = "Put" ->
            Response(With(st, req.key, req.body), Output("put", req.key))
      [] req.op = "Delete" ->
            Response(Without(st, {req.key}), Output("delete", req.key))
      [] req.op = "DeleteMany" ->
            Response(Without(st, {req.keys[i] : i \in 1..Len(req.keys)}),
                     Output("deletes", req.keys))
      [] OTHER ->
            Response(st, Output("listing",
                                ListObjectsV2(st, req.key, req.keys, req.tok)))

(***************************************************************************)
(* The state of the process.                                               *)
(***************************************************************************)
VARIABLES
    configured,     \* AwsSimpleStorageService.configured
    configuration,  \* AwsSimpleStorageService.configuration
    client,         \* AwsSimpleStorageService.client exists
    store,          \* the bucket
    stack,          \* the pending calls, the running one last
    ret,            \* what the call that ended last ended with
    sent,           \* the requests sent since the public call started
    answer,         \* what the bucket answered to the last request
    call,           \* the public call that is running or ended last
    store0,         \* the bucket when that call started
    prev,           \* the public call before it and what it ended with
    ops,            \* number of public calls made
    normArg,        \* the path and the flag normalizePath is applied to
    normOut,        \* what normalizePath returned for them, and for its result
    fault,          \* the requests the bucket refuses, and the error it gives
    configures,     \* number of explicit calls of configure
    pending,        \* the requests sent whose answers are outstanding
    used,           \* the configured flag, client and configuration of every send
    parked,         \* the operations started concurrently that are suspended
    others,         \* number of changes other clients made to the bucket
    keyArg,         \* a listed key with the source and the destination directory
    keyOut          \* the key copyDirectoryAsync copies it to

vars == <<configured, configuration, client, store, stack, ret, sent, answer,
          call, store0, prev, ops, normArg, normOut, fault, configures,
          pending, used, parked, others, keyArg, keyOut>>

top == stack[Len(stack)]

At(fn, pc) == Len(stack) > 0 /\ top.fn = fn /\ top.pc = pc

\* the running call got the value of the call it awaited
Got(fn, pc) == At(fn, pc) /\ ret.kind # "error"

Pop == SubSeq(stack, 1, Len(stack) - 1)

\* the running call ends with value v
Return(v) == stack' = Pop /\ ret' = v

\* the running call goes on as frame f
Goto(f) == stack' = [stack EXCEPT ![Len(stack)] = f] /\ ret' = None

\* the running call becomes frame f and awaits the call of frame callee
Await(f, callee) ==
    /\ Len(stack) < MaxStack
    /\ stack' = Append([stack EXCEPT ![Len(stack)] = f], callee)
    /\ ret' = None

\* the methods without their first line: nothing is configured on the way
LazyConfigure_skipped == UNCHANGED <<configured, configuration, client>>

\* line 101 before lines 91-94: the flag is set, the client is not made yet
LazyConfigure_flagFirst ==
    /\ configured' = TRUE
    /\ UNCHANGED <<configuration, client>>

\* if (!AwsSimpleStorageService.configured) AwsSimpleStorageService.configure()
LazyConfigure ==
    /\ configured' = TRUE
    /\ client' = TRUE
    /\ configuration' = IF configured THEN configuration ELSE "environment"

NoConfigure == UNCHANGED <<configured, configuration, client>>

Log(req) == sent' = IF Len(sent) < MaxLog THEN Append(sent, req) ELSE sent

\* the bucket refuses no request
NoFault == <<"none", "none">>

\* the bucket refuses the requests of one operation with one error: the
\* head or the list requests with AccessDenied, the list requests with
\* NotFound
Faults ==
    { NoFault, <<"Head", "AccessDenied">>, <<"List", "AccessDenied">>,
      <<"List", "NotFound">> }

\* the bucket refuses request req
Refused(req) ==
    /\ fault[1] = req.op
    /\ Len(fault) = 3 => fault[3] = req.key

\* the running call returning to its caller without awaiting the answer
awaits_not(f) == f

\* await this.client.send(command): the running call is suspended until
\* the answer is there
awaits(f) == [f EXCEPT !.wait = TRUE]

\* the running call after the answer it awaited
resumed == [top EXCEPT !.wait = FALSE]

\* this.client.send(command): the request leaves for the bucket, with the
\* client and the configuration of that moment
Send(req) ==
    /\ ~top.wait
    /\ Len(pending) < MaxPending
    /\ pending' = Append(pending, req)
    /\ Log(req)
    /\ used' = used \cup {<<configured', client', configuration'>>}
    /\ stack' = [stack EXCEPT ![Len(stack)] = awaits(top)]
    /\ UNCHANGED <<store, answer, ret>>

\* the bucket answers the request that is outstanding longest
Receive ==
    /\ top.wait
    /\ Len(pending) > 0
    /\ pending' = Tail(pending)
    /\ store' = (IF Refused(pending[1]) THEN store
                 ELSE Respond(store, pending[1]).store)
    /\ answer' = (IF Refused(pending[1]) THEN Failure(fault[2], fault[2])
                  ELSE Respond(store, pending[1]).out)
    /\ UNCHANGED <<configured, configuration, client, sent, used>>

NoSend == UNCHANGED <<store, sent, answer, pending, used>>

History ==
    <<call, store0, prev, ops, normArg, normOut, fault, configures, parked,
      others, keyArg, keyOut>>

(***************************************************************************)
(* The requests the methods build.                                         *)
(***************************************************************************)
\* headObjectAsync, lines 478-495
headObjectAsync(objectPath) ==
    Request("Head", normalizePath(objectPath, "undefined").path, << >>, NoToken, 0)

\* getObjectAsync, lines 381-414
getObjectAsync(objectPath) ==
    Request("Get", normalizePath(objectPath, "undefined").path, << >>, NoToken, 0)

\* putObjectAsync, lines 713-750
putObjectAsync(objectPath, content) ==
    Request("Put", normalizePath(objectPath, "undefined").path, << >>, NoToken, content)

\* the PutObjectCommand of makeDirectoryAsync, lines 579-602
PutObjectCommand(key, body) == Request("Put", key, << >>, NoToken, body)

\* lines 238-245 and 270-277 deleting the key with a batch of one
DeleteObjectCommand_batch(key) == Request("DeleteMany", << >>, <<key>>, NoToken, 0)

\* the DeleteObjectCommand of deleteObjectAsync and deleteDirectoryAsync
DeleteObjectCommand(key) == Request("Delete", key, << >>, NoToken, 0)

\* lines 308-310 normalizing every key as a directory
DeleteObjectsCommand_directories(keys) ==
    Request("DeleteMany", << >>,
            [i \in 1..Len(keys) |-> normalizePath(keys[i], "true").path],
            NoToken, 0)

\* the DeleteObjectsCommand of deleteObjectsAsync, lines 299-312
DeleteObjectsCommand(keys) ==
    Request("DeleteMany", << >>,
            [i \in 1..Len(keys) |-> normalizePath(keys[i], "undefined").path],
            NoToken, 0)

\* the ListObjectsV2Command of listObjectsAsync, lines 529-542
ListObjectsV2Command(directoryPath, continuationToken) ==
    LET normalizedObjectPath ==
            normalizePath(IF directoryPath = UNDEFINED THEN <<SLASH>> ELSE directoryPath,
                          "true")
    IN  Request("List", normalizedObjectPath.path,
                IF Len(normalizedObjectPath.path) > 0 THEN <<SLASH>> ELSE UNDEFINED,
                continuationToken, 0)


(***************************************************************************)
(* listObjectsAsync, lines 518-557                                         *)
(***************************************************************************)
\* the token the follow-up call is made with (line 549)
listObjectsAsync_token(request) == request.ContinuationToken

\* lines 520-549: configure, normalize, send the list request; on a
\* truncated page call listObjectsAsync again.  Lines 551-556: append the
\* Contents of the rest and return.
listObjectsAsync_step ==
    /\ Len(stack) > 0
    /\ top.fn = "listObjectsAsync"
    /\ ret.kind # "error"
    /\ IF top.pc = "begin"
       THEN \/ LazyConfigure /\ Send(ListObjectsV2Command(top.a, top.tok))
            \/ /\ Receive
               /\ IF answer'.kind = "error"
                  THEN Return(answer')
                  ELSE IF answer'.value.IsTruncated = TRUE
                  THEN Await([resumed EXCEPT !.pc = "merge", !.data = answer'.value],
                             [Frame("listObjectsAsync", top.a, << >>, FALSE)
                                EXCEPT !.tok = listObjectsAsync_token(answer'.value)])
                  ELSE Return(answer')
       ELSE /\ Return(Output("listing",
                             [top.data EXCEPT
                                !.Contents = top.data.Contents \o ret.value.Contents]))
            /\ NoConfigure
            /\ NoSend
    /\ UNCHANGED History

(***************************************************************************)
(* objectExistsAsync, lines 682-704                                        *)
(***************************************************************************)
\* line 698 swallowing every error
objectExistsAsync_catch_any(error) == TRUE

\* line 698: the error the catch turns into false
objectExistsAsync_catch(error) == error.name = "NotFound"

objectExistsAsync_begin ==
    /\ At("objectExistsAsync", "begin")
    /\ \/ LazyConfigure /\ Send(headObjectAsync(normalizePath(top.a, "undefined").path))
       \/ /\ Receive
          /\ Return(IF answer'.kind # "error" THEN Bool(TRUE)
                    ELSE IF objectExistsAsync_catch(answer') THEN Bool(FALSE)
                    ELSE answer')
    /\ UNCHANGED History

(***************************************************************************)
(* directoryExistsAsync, lines 323-353                                     *)
(***************************************************************************)
\* lines 342-343 looking at the Contents only
directoryExistsAsync_test_contents(directoryContents) ==
    Len(directoryContents.Contents) > 0

\* lines 342-343: the listing shows a directory
directoryExistsAsync_test(directoryContents) ==
    \/ Len(directoryContents.Contents) > 0
    \/ Len(directoryContents.CommonPrefixes) > 0

\* line 332 without its test: the directory is listed whatever was found
directoryExistsAsync_marker_never(found) == FALSE

\* line 332: the marker key exists
directoryExistsAsync_marker(found) == found

\* lines 326-332: normalize, ensure the trailing slash, probe the marker
directoryExistsAsync_begin ==
    /\ At("directoryExistsAsync", "begin")
    /\ LET normalized == normalizePath(top.a, "true").path
           objectPath == IF ~endsWith(normalized, SLASH)
                         THEN normalized \o <<SLASH>>
                         ELSE normalized
       IN  Await([top EXCEPT !.pc = "probed", !.a = objectPath],
                 Frame("objectExistsAsync", objectPath, << >>, FALSE))
    /\ NoConfigure
    /\ NoSend
    /\ UNCHANGED History

\* lines 332-339: the marker exists, or list the directory
directoryExistsAsync_probed ==
    /\ Got("directoryExistsAsync", "probed")
    /\ IF directoryExistsAsync_marker(ret.value)
       THEN Return(Bool(TRUE))
       ELSE Await([top EXCEPT !.pc = "listed"],
                  Frame("listObjectsAsync", top.a, << >>, FALSE))
    /\ NoConfigure
    /\ NoSend
    /\ UNCHANGED History

\* lines 341-343
directoryExistsAsync_listed ==
    /\ Got("directoryExistsAsync", "listed")
    /\ Return(Bool(directoryExistsAsync_test(ret.value)))
    /\ NoConfigure
    /\ NoSend
    /\ UNCHANGED History

(***************************************************************************)
(* makeDirectoryAsync, lines 566-603                                       *)
(***************************************************************************)
\* line 572 without its test: the marker is put whatever was found
makeDirectoryAsync_exists_never(found) == FALSE

\* line 572: the directory is there already
makeDirectoryAsync_exists(found) == found

makeDirectoryAsync_begin ==
    /\ At("makeDirectoryAsync", "begin")
    /\ LazyConfigure
    /\ Await([top EXCEPT !.pc = "checked"],
             Frame("directoryExistsAsync", top.a, << >>, FALSE))
    /\ NoSend
    /\ UNCHANGED History

\* lines 572-602: null, or the put of the empty marker
makeDirectoryAsync_checked ==
    /\ Got("makeDirectoryAsync", "checked")
    /\ IF makeDirectoryAsync_exists(ret.value)
       THEN Return(Null) /\ NoSend /\ NoConfigure
       ELSE \/ /\ NoConfigure
               /\ Send(PutObjectCommand(normalizePath(top.a, "true").path, 0))
            \/ Receive /\ Return(answer')
    /\ UNCHANGED History

(***************************************************************************)
(* deleteObjectsAsync, lines 287-313, and deleteObjectAsync, lines 255-278 *)
(***************************************************************************)
\* line 293 without its test: the batch is sent whatever the keys
deleteObjectsAsync_noKeys_never(f) == FALSE

\* line 293: !keys?.length
deleteObjectsAsync_noKeys(f) == Len(IF f.arr THEN f.keys ELSE f.a) = 0

deleteObjectsAsync_begin ==
    /\ At("deleteObjectsAsync", "begin")
    /\ IF deleteObjectsAsync_noKeys(top)
       THEN LazyConfigure /\ Return(Null) /\ NoSend
       ELSE IF ~top.arr
       THEN /\ LazyConfigure
            /\ Goto(Frame("deleteObjectAsync", top.a, << >>, FALSE))
            /\ NoSend
       ELSE \/ LazyConfigure /\ Send(DeleteObjectsCommand(top.keys))
            \/ Receive /\ Return(answer')
    /\ UNCHANGED History

\* line 267 without its test: no path is taken for a directory
deleteObjectAsync_directory_never(normalizedObjectPath) == FALSE

\* line 267: the path names a directory
deleteObjectAsync_directory(normalizedObjectPath) == normalizedObjectPath.directory

deleteObjectAsync_begin ==
    /\ At("deleteObjectAsync", "begin")
    /\ IF top.arr
       THEN Goto(FrameKeys("deleteObjectsAsync", top.keys)) /\ NoSend /\ NoConfigure
       ELSE LET normalizedObjectPath == normalizePath(top.a, "undefined")
            IN  IF deleteObjectAsync_directory(normalizedObjectPath)
                THEN /\ LazyConfigure
                     /\ Goto(Frame("deleteDirectoryAsync", normalizedObjectPath.path,
                                   << >>, FALSE))
                     /\ NoSend
                ELSE \/ /\ LazyConfigure
                        /\ Send(DeleteObjectCommand(normalizedObjectPath.path))
                     \/ Receive /\ Return(answer')
    /\ UNCHANGED History

(***************************************************************************)
(* deleteDirectoryAsync, lines 209-246                                     *)
(***************************************************************************)
\* line 225 without its test: the deletion goes on whatever was listed
deleteDirectoryAsync_empty_never(data) == FALSE

\* line 225: nothing listed at this level
deleteDirectoryAsync_empty(data) == Len(data.Contents) = 0

\* lines 212-222
deleteDirectoryAsync_begin ==
    /\ At("deleteDirectoryAsync", "begin")
    /\ LazyConfigure
    /\ LET normalizedObjectPath == normalizePath(top.a, "true")
       IN  IF ~normalizedObjectPath.directory
           THEN Return(Failure("Error", "Path Not A Directory"))
           ELSE Await([top EXCEPT !.pc = "listed", !.b = normalizedObjectPath.path],
                      Frame("listObjectsAsync", normalizedObjectPath.path, << >>, FALSE))
    /\ NoSend
    /\ UNCHANGED History

\* line 225
deleteDirectoryAsync_listed ==
    /\ Got("deleteDirectoryAsync", "listed")
    /\ IF deleteDirectoryAsync_empty(ret.value)
       THEN Return(Null)
       ELSE Goto([top EXCEPT !.pc = "prefixes", !.data = ret.value, !.i = 1])
    /\ NoConfigure
    /\ NoSend
    /\ UNCHANGED History

\* lines 228-235: the sub-directories one after the other, then the batch
deleteDirectoryAsync_prefixes ==
    /\ Got("deleteDirectoryAsync", "prefixes")
    /\ IF top.i <= Len(top.data.CommonPrefixes)
       THEN Await([top EXCEPT !.i = top.i + 1],
                  Frame("deleteDirectoryAsync", top.data.CommonPrefixes[top.i],
                        << >>, FALSE))
       ELSE Await([top EXCEPT !.pc = "marker"],
                  FrameKeys("deleteObjectsAsync", top.data.Contents))
    /\ NoConfigure
    /\ NoSend
    /\ UNCHANGED History

\* lines 238-245: the delete of the marker key
deleteDirectoryAsync_marker ==
    /\ Got("deleteDirectoryAsync", "marker")
    /\ \/ NoConfigure /\ Send(DeleteObjectCommand(top.b))
       \/ Receive /\ Return(answer')
    /\ UNCHANGED History


(***************************************************************************)
(* copyObjectAsync, lines 163-200                                          *)
(***************************************************************************)
\* line 190 deleting the source key
copyObjectAsync_deleted_source(sourcePath, destinationPath) == sourcePath

\* line 190: the key deleteObjectAsync is called with when deleteOriginal
copyObjectAsync_deleted(sourcePath, destinationPath) == destinationPath

\* line 189 testing nothing: the delete follows every copy
copyObjectAsync_deleteOriginal_always(deleteOriginal) == TRUE

\* line 189: if (deleteOriginal === true)
copyObjectAsync_deleteOriginal(deleteOriginal) == deleteOriginal = TRUE

\* lines 166-181: normalize both paths, get the source
copyObjectAsync_begin ==
    /\ At("copyObjectAsync", "begin")
    /\ LET normalizedDestinationObjectPath == normalizePath(top.b, "undefined")
           normalizedSourceObjectPath == normalizePath(top.a, "undefined")
       IN  \/ /\ LazyConfigure
              /\ Send(getObjectAsync(normalizedSourceObjectPath.path))
           \/ /\ Receive
              /\ IF answer'.kind = "error"
                 THEN Return(answer')
                 ELSE Goto([resumed EXCEPT !.pc = "put",
                                          !.a = normalizedSourceObjectPath.path,
                                          !.b = normalizedDestinationObjectPath.path,
                                          !.body = answer'.value])
    /\ UNCHANGED History

\* lines 185-193: put the body at the destination, then the delete
copyObjectAsync_put ==
    /\ At("copyObjectAsync", "put")
    /\ \/ LazyConfigure /\ Send(putObjectAsync(top.b, top.body))
       \/ /\ Receive
          /\ IF answer'.kind = "error"
             THEN Return(answer')
             ELSE IF copyObjectAsync_deleteOriginal(top.del)
             THEN Await([resumed EXCEPT !.pc = "deleted", !.out = <<answer'>>],
                        Frame("deleteObjectAsync",
                              copyObjectAsync_deleted(top.a, top.b), << >>, FALSE))
             ELSE Return(answer')
    /\ UNCHANGED History

\* line 193
copyObjectAsync_deleted_return ==
    /\ Got("copyObjectAsync", "deleted")
    /\ Return(top.out[1])
    /\ NoConfigure
    /\ NoSend
    /\ UNCHANGED History

(***************************************************************************)
(* copyDirectoryAsync, lines 116-152                                       *)
(***************************************************************************)
\* line 129 without its test: the copy goes on whatever was found
copyDirectoryAsync_missing_never(found) == FALSE

\* line 129: the source directory is missing
copyDirectoryAsync_missing(found) == ~found

\* lines 138-139 putting the whole source key under the destination
copyDirectoryAsync_target_whole(key, sourcePath, destinationPath) ==
    destinationPath \o key

\* String.prototype.replace with the g flag: every occurrence is substituted
RECURSIVE replaceEvery(_, _, _)
replaceEvery(s, p, r) ==
    LET i == indexOf(s, p)
    IN  IF i = 0 \/ Len(p) = 0 THEN s
        ELSE SubSeq(s, 1, i - 1) \o r \o replaceEvery(SubSeq(s, i + Len(p), Len(s)), p, r)

\* lines 138-139 substituting the source path wherever it occurs in the key
copyDirectoryAsync_target_every(key, sourcePath, destinationPath) ==
    replaceEvery(key, sourcePath, destinationPath)

\* lines 138-139 and 143-144: the key under the destination
copyDirectoryAsync_target(key, sourcePath, destinationPath) ==
    replace(key, sourcePath, destinationPath)

\* lines 119-129
copyDirectoryAsync_begin ==
    /\ At("copyDirectoryAsync", "begin")
    /\ LET normalizedSourceDirectoryPath == normalizePath(top.a, "true")
           normalizedDestinationDirectoryPath == normalizePath(top.b, "true")
       IN  Await([top EXCEPT !.pc = "exists",
                             !.a = normalizedSourceDirectoryPath.path,
                             !.b = normalizedDestinationDirectoryPath.path,
                             !.out = << >>],
                 Frame("directoryExistsAsync", normalizedSourceDirectoryPath.path,
                       << >>, FALSE))
    /\ NoConfigure
    /\ NoSend
    /\ UNCHANGED History

\* lines 129-134
copyDirectoryAsync_exists ==
    /\ Got("copyDirectoryAsync", "exists")
    /\ IF copyDirectoryAsync_missing(ret.value)
       THEN Return(Failure("Error", "Object Directory Not Found"))
       ELSE Await([top EXCEPT !.pc = "listed"],
                  Frame("listObjectsAsync", top.a, << >>, FALSE))
    /\ NoConfigure
    /\ NoSend
    /\ UNCHANGED History

copyDirectoryAsync_listed ==
    /\ Got("copyDirectoryAsync", "listed")
    /\ Goto([top EXCEPT !.pc = "objects", !.data = ret.value, !.i = 1])
    /\ NoConfigure
    /\ NoSend
    /\ UNCHANGED History

\* lines 137-139: the objects of this level one after the other
copyDirectoryAsync_objects ==
    /\ Got("copyDirectoryAsync", "objects")
    /\ IF top.i <= Len(top.data.Contents)
       THEN LET key == top.data.Contents[top.i]
            IN  Await([top EXCEPT !.pc = "copied"],
                      Frame("copyObjectAsync", key,
                            copyDirectoryAsync_target(key, top.a, top.b), top.del))
       ELSE Goto([top EXCEPT !.pc = "prefixes", !.i = 1])
    /\ NoConfigure
    /\ NoSend
    /\ UNCHANGED History

\* line 138: response.push
copyDirectoryAsync_copied ==
    /\ Got("copyDirectoryAsync", "copied")
    /\ Goto([top EXCEPT !.pc = "objects", !.out = Append(top.out, ret),
                        !.i = top.i + 1])
    /\ NoConfigure
    /\ NoSend
    /\ UNCHANGED History

\* lines 142-151: the sub-directories one after the other, then the end
copyDirectoryAsync_prefixes ==
    /\ Got("copyDirectoryAsync", "prefixes")
    /\ IF top.i <= Len(top.data.CommonPrefixes)
       THEN LET prefix == top.data.CommonPrefixes[top.i]
            IN  Await([top EXCEPT !.pc = "sub"],
                      Frame("copyDirectoryAsync", prefix,
                            copyDirectoryAsync_target(prefix, top.a, top.b), top.del))
       ELSE IF top.del = TRUE
       THEN Await([top EXCEPT !.pc = "recheck"],
                  Frame("directoryExistsAsync", top.a, << >>, FALSE))
       ELSE Return(Output("puts", top.out))
    /\ NoConfigure
    /\ NoSend
    /\ UNCHANGED History

\* line 142-143: response.concat
copyDirectoryAsync_sub ==
    /\ Got("copyDirectoryAsync", "sub")
    /\ Goto([top EXCEPT !.pc = "prefixes", !.out = top.out \o ret.value,
                        !.i = top.i + 1])
    /\ NoConfigure
    /\ NoSend
    /\ UNCHANGED History

\* lines 147-148
copyDirectoryAsync_recheck ==
    /\ Got("copyDirectoryAsync", "recheck")
    /\ IF ret.value
       THEN Await([top EXCEPT !.pc = "removed"],
                  Frame("deleteDirectoryAsync", top.a, << >>, FALSE))
       ELSE Return(Output("puts", top.out))
    /\ NoConfigure
    /\ NoSend
    /\ UNCHANGED History

\* line 151
copyDirectoryAsync_removed ==
    /\ Got("copyDirectoryAsync", "removed")
    /\ Return(Output("puts", top.out))
    /\ NoConfigure
    /\ NoSend
    /\ UNCHANGED History

(***************************************************************************)
(* moveDirectoryAsync, lines 613-617, and moveObjectAsync, lines 628-632   *)
(***************************************************************************)
moveDirectoryAsync_begin ==
    /\ At("moveDirectoryAsync", "begin")
    /\ Goto(Frame("copyDirectoryAsync", top.a, top.b, TRUE))
    /\ NoConfigure
    /\ NoSend
    /\ UNCHANGED History

moveObjectAsync_begin ==
    /\ At("moveObjectAsync", "begin")
    /\ Await([top EXCEPT !.pc = "moved"],
             Frame("copyObjectAsync", top.a, top.b, TRUE))
    /\ NoConfigure
    /\ NoSend
    /\ UNCHANGED History

moveObjectAsync_moved ==
    /\ Got("moveObjectAsync", "moved")
    /\ Return(Void)
    /\ NoConfigure
    /\ NoSend
    /\ UNCHANGED History

(***************************************************************************)
(* An error leaves the call that awaited it, unless that call catches it:  *)
(* directoryExistsAsync turns a NotFound of its listing into false (lines  *)
(* 345-352).                                                               *)
(***************************************************************************)
\* line 348 swallowing every error
directoryExistsAsync_catch_any(error) == TRUE

\* line 348: the error the catch of directoryExistsAsync turns into false
directoryExistsAsync_catch(error) == error.name = "NotFound"

propagate ==
    /\ Len(stack) > 0
    /\ ret.kind = "error"
    /\ IF /\ top.fn = "directoryExistsAsync"
          /\ top.pc = "listed"
          /\ directoryExistsAsync_catch(ret)
       THEN Return(Bool(FALSE))
       ELSE stack' = Pop /\ UNCHANGED ret
    /\ NoConfigure
    /\ NoSend
    /\ UNCHANGED History


(***************************************************************************)
(* The callers of the public interface: the buckets they start from and    *)
(* the paths they pass.                                                    *)
(***************************************************************************)
\* keys of the bucket: the tree s/ with its marker, two objects and the
\* sub-directory s/u/, and an object under d/
InitialKeys ==
    { <<"s", "/">>, <<"s", "/", "a">>, <<"s", "/", "b">>,
      <<"s", "/", "u", "/", "a">>, <<"d", "/", "a">> }

\* the body of an initial object: empty for a directory marker, and
\* different for any two other keys
InitialBody(k) ==
    IF endsWith(k, SLASH) THEN 0
    ELSE Len(k) * 10 + (IF k[Len(k)] = "a" THEN 1 ELSE 2) + (IF k[1] = "d" THEN 100 ELSE 0)

\* directory paths the callers pass, as the caller writes them: s/ also
\* without its slash, and x/, which is in no bucket
DirectoryPaths ==
    { <<"s", "/">>, <<"s">>, <<"s", "/", "u", "/">>, <<"x", "/">> }

\* destinations of a copy or a move: d/, and s/u/, which lies inside s/
DestinationPaths == { <<"d", "/">>, <<"s", "/", "u", "/">> }

\* object paths the callers pass
ObjectPaths == { <<"s", "/", "a">>, <<"d", "/", "a">>, <<"x", "/", "a">> }

\* arrays of keys the callers pass to the delete methods
KeyArrays ==
    { << >>, <<<<"s", "/", "a">>>>, <<<<"s", "/">>>>, <<<<"x", "/", "a">>>>,
      <<<<"s", "/", "a">>, <<"s", "/", "b">>>> }

NoCall == Frame("none", << >>, << >>, FALSE)

\* the calls a caller makes after a first one: after makeDirectoryAsync it
\* may create or probe a directory again
FollowUp(f) ==
    /\ ops < MaxOps
    /\ call.fn = "makeDirectoryAsync"
    /\ f.fn \in {"makeDirectoryAsync", "directoryExistsAsync"}

\* a caller calls a public method: f is the frame of the call, refused is
\* what the bucket refuses while the call runs
InvokeWith(f, refused) ==
    /\ stack = << >>
    /\ ops = 0 \/ FollowUp(f)
    /\ stack' = <<f>>
    /\ ret' = None
    /\ sent' = << >>
    /\ call' = f
    /\ store0' = store
    /\ prev' = Ended(call, ret)
    /\ ops' = ops + 1
    /\ fault' = refused
    /\ UNCHANGED <<configured, configuration, client, store, answer, normArg, normOut,
                   configures, pending, used, parked, others, keyArg, keyOut>>

Invoke(f) == InvokeWith(f, NoFault)

call_copyDirectoryAsync ==
    \E src \in DirectoryPaths, dst \in DestinationPaths :
        Invoke(Frame("copyDirectoryAsync", src, dst, FALSE))

call_moveDirectoryAsync ==
    \E src \in DirectoryPaths, dst \in DestinationPaths :
        Invoke(Frame("moveDirectoryAsync", src, dst, FALSE))

call_copyObjectAsync ==
    \E src \in ObjectPaths, dst \in ObjectPaths, deleteOriginal \in BOOLEAN :
        Invoke(Frame("copyObjectAsync", src, dst, deleteOriginal))

call_moveObjectAsync ==
    \E src \in ObjectPaths, dst \in ObjectPaths :
        Invoke(Frame("moveObjectAsync", src, dst, FALSE))

call_deleteDirectoryAsync ==
    \E dir \in DirectoryPaths :
        Invoke(Frame("deleteDirectoryAsync", dir, << >>, FALSE))

call_deleteObjectAsync ==
    \/ \E p \in ObjectPaths \cup DirectoryPaths :
            Invoke(Frame("deleteObjectAsync", p, << >>, FALSE))
    \/ \E keys \in KeyArrays : Invoke(FrameKeys("deleteObjectAsync", keys))

call_deleteObjectsAsync ==
    \/ \E p \in ObjectPaths \cup { << >> } :
            Invoke(Frame("deleteObjectsAsync", p, << >>, FALSE))
    \/ \E keys \in KeyArrays : Invoke(FrameKeys("deleteObjectsAsync", keys))

call_directoryExistsAsync ==
    \E dir \in DirectoryPaths, refused \in Faults :
        InvokeWith(Frame("directoryExistsAsync", dir, << >>, FALSE), refused)

call_objectExistsAsync ==
    \E p \in ObjectPaths, refused \in Faults :
        InvokeWith(Frame("objectExistsAsync", p, << >>, FALSE), refused)

call_listObjectsAsync ==
    \E dir \in DirectoryPaths \cup {UNDEFINED} :
        Invoke(Frame("listObjectsAsync", dir, << >>, FALSE))

call_makeDirectoryAsync ==
    \E dir \in DirectoryPaths :
        Invoke(Frame("makeDirectoryAsync", dir, << >>, FALSE))

Init ==
    /\ configured = FALSE
    /\ configuration = "unset"
    /\ client = FALSE
    /\ store \in { [k \in K |-> InitialBody(k)] : K \in SUBSET InitialKeys }
    /\ stack = << >>
    /\ ret = None
    /\ sent = << >>
    /\ answer = None
    /\ call = NoCall
    /\ store0 = store
    /\ prev = Ended(NoCall, None)
    /\ ops = 0
    /\ normArg = << << >>, "undefined" >>
    /\ normOut = << >>
    /\ fault = NoFault
    /\ configures = 0
    /\ pending = << >>
    /\ used = {}
    /\ parked = << >>
    /\ others = 0
    /\ keyArg = << >>
    /\ keyOut = << >>

\* a caller calls a method of the public interface
Call ==
    \/ call_copyDirectoryAsync
    \/ call_moveDirectoryAsync
    \/ call_copyObjectAsync
    \/ call_moveObjectAsync
    \/ call_deleteDirectoryAsync
    \/ call_deleteObjectAsync
    \/ call_deleteObjectsAsync
    \/ call_directoryExistsAsync
    \/ call_objectExistsAsync
    \/ call_listObjectsAsync
    \/ call_makeDirectoryAsync

\* the running call goes on to its next await or to its end
Step ==
    \/ listObjectsAsync_step
    \/ objectExistsAsync_begin
    \/ directoryExistsAsync_begin
    \/ directoryExistsAsync_probed
    \/ directoryExistsAsync_listed
    \/ makeDirectoryAsync_begin
    \/ makeDirectoryAsync_checked
    \/ deleteObjectsAsync_begin
    \/ deleteObjectAsync_begin
    \/ deleteDirectoryAsync_begin
    \/ deleteDirectoryAsync_listed
    \/ deleteDirectoryAsync_prefixes
    \/ deleteDirectoryAsync_marker
    \/ copyObjectAsync_begin
    \/ copyObjectAsync_put
    \/ copyObjectAsync_deleted_return
    \/ copyDirectoryAsync_begin
    \/ copyDirectoryAsync_exists
    \/ copyDirectoryAsync_listed
    \/ copyDirectoryAsync_objects
    \/ copyDirectoryAsync_copied
    \/ copyDirectoryAsync_prefixes
    \/ copyDirectoryAsync_sub
    \/ copyDirectoryAsync_recheck
    \/ copyDirectoryAsync_removed
    \/ moveDirectoryAsync_begin
    \/ moveObjectAsync_begin
    \/ moveObjectAsync_moved
    \/ propagate

Next == Call \/ Step

Spec == Init /\ [][Next]_vars

(***************************************************************************)
(* configure, lines 88-105, called by the program at any moment: before a  *)
(* public call, between two of them or while one awaits the bucket.        *)
(***************************************************************************)
\* the configurations a program passes to configure
Configurations == {"A", "B"}

configure ==
    /\ configures < MaxConfigures
    /\ \E c \in Configurations : configuration' = c
    /\ client' = TRUE
    /\ configured' = TRUE
    /\ configures' = configures + 1
    /\ UNCHANGED <<store, stack, ret, sent, answer, call, store0, prev, ops,
                   normArg, normOut, fault, pending, used, parked, others,
                   keyArg, keyOut>>

\* the bucket of the programs that configure: the directory s/ with its
\* marker, an object and a sub-directory, and an object under d/
ConfiguredKeys ==
    { <<"s", "/">>, <<"s", "/", "a">>, <<"s", "/", "u", "/", "a">>, <<"d", "/", "a">> }

ConfigInit ==
    /\ Init
    /\ DOMAIN store = ConfiguredKeys

ConfigNext == configure \/ Call \/ Step

ConfigSpec == ConfigInit /\ [][ConfigNext]_vars

(***************************************************************************)
(* normalizePath on its own, lines 642-674: a caller applies it to a path  *)
(* and a flag, and then to the path it returned with the same flag.        *)
(***************************************************************************)
\* the characters of the paths: a letter, the dot, the blank, the two slashes
PathChars == {"a", DOT, SPACE, SLASH, BACKSLASH}

\* the paths of at most MaxLen characters
Paths == UNION {[1..n -> PathChars] : n \in 0..MaxLen}

normalizePath_call ==
    /\ Len(normOut) = 0
    /\ normOut' = <<normalizePath(normArg[1], normArg[2])>>
    /\ UNCHANGED <<configured, configuration, client, store, stack, ret, sent,
                   answer, call, store0, prev, ops, normArg, fault, configures,
                   pending, used, parked, others, keyArg, keyOut>>

normalizePath_again ==
    /\ Len(normOut) = 1
    /\ normOut' = Append(normOut, normalizePath(normOut[1].path, normArg[2]))
    /\ UNCHANGED <<configured, configuration, client, store, stack, ret, sent,
                   answer, call, store0, prev, ops, normArg, fault, configures,
                   pending, used, parked, others, keyArg, keyOut>>

NormInit ==
    /\ configured = FALSE
    /\ configuration = "unset"
    /\ client = FALSE
    /\ store = [k \in {} |-> 0]
    /\ stack = << >>
    /\ ret = None
    /\ sent = << >>
    /\ answer = None
    /\ call = NoCall
    /\ store0 = store
    /\ prev = Ended(NoCall, None)
    /\ ops = 0
    /\ normArg \in Paths \X DirectoryFlags
    /\ normOut = << >>
    /\ fault = NoFault
    /\ configures = 0
    /\ pending = << >>
    /\ used = {}
    /\ parked = << >>
    /\ others = 0
    /\ keyArg = << >>
    /\ keyOut = << >>

NormNext == normalizePath_call \/ normalizePath_again

NormSpec == NormInit /\ [][NormNext]_vars

(***************************************************************************)
(* What the claims speak about.                                            *)
(***************************************************************************)
\* the public call has ended, with a value or with an error
Done == ops > 0 /\ stack = << >>

\* the public call has ended with a value
Returned == Done /\ ret.kind # "error"

\* the key of the directory a caller names
DirectoryKey(p) == normalizePath(p, "true").path

\* the key of the object a caller names
ObjectKey(p) == normalizePath(p, "undefined").path

\* some key of the bucket lies under the directory key: its marker, an
\* object in it or an object below it
DirectoryPresent(st, key) == \E k \in DOMAIN st : startsWith(k, key)

\* neither directory key lies under the other
Disjoint(src, dst) == ~startsWith(src, dst) /\ ~startsWith(dst, src)

\* the key under dst that corresponds to the key k under src
Relocated(k, src, dst) == dst \o slice(k, Len(src))

\* the requests of the log with one of the operations ops
SentOf(kinds) == {i \in 1..Len(sent) : sent[i].op \in kinds}

Writes == {"Put", "Delete", "DeleteMany"}

\* the directory keys of the two arguments of the running call
src == DirectoryKey(call.a)
dst == DirectoryKey(call.b)

\* every key that was under src when the call started has its body at the
\* corresponding key under dst
CopiedAll ==
    \A k \in KeysUnder(store0, src) :
        /\ Relocated(k, src, dst) \in DOMAIN store
        /\ store[Relocated(k, src, dst)] = store0[k]

\* the value of the call is a list of put results, one for each key that
\* was under src when the call started
OneResultEach ==
    /\ ret.kind = "puts"
    /\ Len(ret.value) = Cardinality(KeysUnder(store0, src))
    /\ {ret.value[i].value : i \in 1..Len(ret.value)}
            = {Relocated(k, src, dst) : k \in KeysUnder(store0, src)}

\* a key under src that lies below a sub-directory of src
Nested(k) == indexOf(slice(k, Len(src)), <<SLASH>>) > 0

(***************************************************************************)
(* C1  moveDirectoryAsync                                                  *)
(***************************************************************************)
\* C1: when moveDirectoryAsync(src, dst) has returned, for a destination
\* that does not overlap the source, no key of the bucket starts with src
\* and every key src+r that was there has its body at dst+r.
C1_MoveDirectory ==
    (Returned /\ call.fn = "moveDirectoryAsync" /\ Disjoint(src, dst))
        => (KeysUnder(store, src) = {} /\ CopiedAll)

(***************************************************************************)
(* C2  copyDirectoryAsync                                                  *)
(***************************************************************************)
\* C2 as stated: when copyDirectoryAsync(src, dst) has returned, every key
\* src+r that was in the bucket, at any depth, has its body at dst+r, and
\* the value is a flat list with one put result per such key.
C2_CopyDirectory ==
    (Returned /\ call.fn = "copyDirectoryAsync") => (CopiedAll /\ OneResultEach)

\* C2 amended: the same, for a destination that is not under the source and
\* a source that is not under the destination.
C2_CopyDirectoryDisjoint ==
    (Returned /\ call.fn = "copyDirectoryAsync" /\ Disjoint(src, dst))
        => (CopiedAll /\ OneResultEach)

\* a copy of a tree with an object at the top and one below a sub-directory
C2_Witness ==
    /\ Returned
    /\ call.fn = "copyDirectoryAsync"
    /\ Disjoint(src, dst)
    /\ \E k \in KeysUnder(store0, src) : Nested(k)
    /\ \E k \in KeysUnder(store0, src) : ~Nested(k)
    /\ Len(ret.value) >= 2

(***************************************************************************)
(* C3  deleteDirectoryAsync                                                *)
(***************************************************************************)
\* C3: when deleteDirectoryAsync(p) has returned, no key of the bucket
\* starts with the directory key of p.
C3_DeleteDirectory ==
    (Returned /\ call.fn = "deleteDirectoryAsync") => KeysUnder(store, src) = {}

(***************************************************************************)
(* C4 and C5  listObjectsAsync                                             *)
(***************************************************************************)
\* the prefix listObjectsAsync lists for the argument of the running call
ListPrefix == DirectoryKey(IF call.a = UNDEFINED THEN <<SLASH>> ELSE call.a)

\* the pages the bucket splits the listing of the running call into
Pages == PagesFrom(store0, ListPrefix, NoToken)

RECURSIVE AllContents(_)
AllContents(pages) ==
    IF Len(pages) = 0 THEN << >>
    ELSE pages[1].Contents \o AllContents(Tail(pages))

\* the keys the pending calls of listObjectsAsync hold to return: the
\* Contents of the pages they got, in the order they got them
Collected ==
    LET F[i \in 0..Len(stack)] ==
            IF i = 0 THEN << >>
            ELSE IF stack[i].fn = "listObjectsAsync" /\ stack[i].pc = "merge"
                 THEN F[i - 1] \o stack[i].data.Contents
                 ELSE F[i - 1]
    IN  F[Len(stack)]

IsPrefix(s, t) == Len(s) <= Len(t) /\ SubSeq(t, 1, Len(s)) = s

\* C4: the keys a call of listObjectsAsync has collected are the keys of
\* the pages of the listing one page after the other, each key once; when
\* the call returns, its Contents are the keys of all the pages.
C4_ListObjectsPages ==
    call.fn = "listObjectsAsync"
        => /\ IsPrefix(Collected, AllContents(Pages))
           /\ Returned => /\ ret.kind = "listing"
                          /\ ret.value.Contents = AllContents(Pages)

\* C5: listObjectsAsync sends no more list requests than the listing has
\* pages, the first without a token and every later one with the
\* NextContinuationToken of the page before it.
C5_ListCalls ==
    call.fn = "listObjectsAsync"
        => /\ Len(sent) <= Len(Pages)
           /\ \A i \in 1..Min(Len(sent), Len(Pages)) :
                /\ sent[i].op = "List"
                /\ sent[i].tok = IF i = 1 THEN NoToken
                                 ELSE Pages[i - 1].NextContinuationToken

(***************************************************************************)
(* C6  copyDirectoryAsync of a directory that is not there                 *)
(***************************************************************************)
\* C6: while and after copyDirectoryAsync(src, dst) runs on a bucket with
\* no marker src and no key under src, no get, put or delete request is
\* sent and the bucket stays as it was; the call ends with the error
\* 'Object Directory Not Found'.
C6_CopyMissing ==
    (call.fn = "copyDirectoryAsync" /\ ~DirectoryPresent(store0, src))
        => /\ SentOf({"Get"} \cup Writes) = {}
           /\ store = store0
           /\ Done => ret = Failure("Error", "Object Directory Not Found")

C6_Witness ==
    /\ Done
    /\ call.fn = "copyDirectoryAsync"
    /\ ~DirectoryPresent(store0, src)
    /\ ret.kind = "error"
    /\ Len(sent) > 0

(***************************************************************************)
(* C7  makeDirectoryAsync twice                                            *)
(***************************************************************************)
\* the call before the running one was makeDirectoryAsync of the same
\* directory and it ended with a value
AfterMakeDirectory ==
    /\ prev.call.fn = "makeDirectoryAsync"
    /\ DirectoryKey(prev.call.a) = src
    /\ prev.ret.kind # "error"

\* C7: makeDirectoryAsync(p) on a bucket where the directory exists sends
\* no put, leaves the bucket as it was and returns null; so does a second
\* makeDirectoryAsync(p) after a first one.
C7_MakeDirectoryTwice ==
    call.fn = "makeDirectoryAsync"
        => /\ DirectoryPresent(store0, src)
                => /\ SentOf(Writes) = {}
                   /\ store = store0
                   /\ Done => ret = Null
           /\ AfterMakeDirectory
                => /\ SentOf(Writes) = {}
                   /\ store = store0
                   /\ Done => ret = Null

\* the first call created the marker, the second one returned null
C7_Witness ==
    /\ Done
    /\ call.fn = "makeDirectoryAsync"
    /\ AfterMakeDirectory
    /\ prev.ret.kind = "put"
    /\ ret = Null

(***************************************************************************)
(* C8  directoryExistsAsync                                                *)
(***************************************************************************)
\* the marker of the directory is in the bucket, or the first page of the
\* one-level listing of the directory has a key or a common prefix
MarkerOrListed(st, key) ==
    \/ key \in DOMAIN st
    \/ LET page == ListObjectsV2(st, key, <<SLASH>>, NoToken)
       IN  Len(page.Contents) + Len(page.CommonPrefixes) > 0

\* C8: directoryExistsAsync(p), on a bucket that refuses no request, ends
\* with a boolean: TRUE exactly when the marker is in the bucket or the
\* one-level listing is not empty; and TRUE after a makeDirectoryAsync(p)
\* that returned.
C8_DirectoryExists ==
    (Done /\ call.fn = "directoryExistsAsync" /\ fault = NoFault)
        => /\ ret = Bool(MarkerOrListed(store0, src))
           /\ AfterMakeDirectory => ret = Bool(TRUE)

\* directoryExistsAsync after the makeDirectoryAsync that put the marker
C8_Witness ==
    /\ Done
    /\ call.fn = "directoryExistsAsync"
    /\ fault = NoFault
    /\ AfterMakeDirectory
    /\ prev.ret.kind = "put"
    /\ ret = Bool(TRUE)

(***************************************************************************)
(* C9 and C10  deleteObjectsAsync                                          *)
(***************************************************************************)
\* the running call is deleteObjectsAsync([k])
DeletesOneOfArray(k) ==
    call.fn = "deleteObjectsAsync" /\ call.arr /\ call.keys = <<k>>

\* the running call is deleteObjectAsync(k)
DeletesOne(k) ==
    call.fn = "deleteObjectAsync" /\ ~call.arr /\ call.a = k

\* the keys callers pass to either call
SingleKeys == ObjectPaths \cup DirectoryPaths \cup {ks[1] : ks \in {a \in KeyArrays : Len(a) = 1}}

\* C9 as stated: for every key k, directory-shaped or not, both
\* deleteObjectsAsync([k]) and deleteObjectAsync(k) end with the bucket
\* that lacks the normalized key and is otherwise as it was.
C9_DeleteOne ==
    \A k \in SingleKeys :
        (Returned /\ (DeletesOneOfArray(k) \/ DeletesOne(k)))
            => store = Without(store0, {ObjectKey(k)})

\* C9 amended: the same for every key k that is not directory-shaped.
C9_DeleteOneObject ==
    \A k \in SingleKeys :
        (Returned /\ (DeletesOneOfArray(k) \/ DeletesOne(k))
                  /\ ~normalizePath(k, "undefined").directory)
            => store = Without(store0, {ObjectKey(k)})

\* deleteObjectsAsync([k]) has deleted the object k
C9_Witness ==
    \E k \in SingleKeys :
        /\ Returned
        /\ DeletesOneOfArray(k)
        /\ ~normalizePath(k, "undefined").directory
        /\ ObjectKey(k) \in DOMAIN store0
        /\ ObjectKey(k) \notin DOMAIN store

\* C10: deleteObjectsAsync([]) sends no request, leaves the bucket as it
\* was and returns null.
C10_DeleteNone ==
    (call.fn = "deleteObjectsAsync" /\ call.arr /\ call.keys = << >>)
        => /\ sent = << >>
           /\ store = store0
           /\ Done => ret = Null

C10_Witness ==
    /\ Done
    /\ call.fn = "deleteObjectsAsync"
    /\ call.arr
    /\ call.keys = << >>
    /\ ret = Null
    /\ DOMAIN store # {}

(***************************************************************************)
(* C11, C12 and C13  normalizePath                                         *)
(***************************************************************************)
\* C11: normalizePath applied to the path it returned, with the same flag,
\* returns the same path and the same directory flag.
C11_Idempotent ==
    Len(normOut) = 2 => normOut[2] = normOut[1]

\* C12: the path normalizePath returns for a directory is empty or ends
\* with one slash and no more; the path it returns for an object does not
\* end with a slash.
C12_TrailingSlash ==
    Len(normOut) >= 1
        => LET r == normOut[1]
               n == Len(r.path)
           IN  IF r.directory
               THEN \/ n = 0
                    \/ /\ r.path[n] = SLASH
                       /\ (n > 1 => r.path[n - 1] # SLASH)
               ELSE ~endsWith(r.path, SLASH)

\* C13: normalizePath of the empty path, without a flag, returns the empty
\* path as a directory.
C13_EmptyPath ==
    (Len(normOut) >= 1 /\ normArg = << << >>, "undefined" >>)
        => normOut[1] = NormalizedPath(TRUE, << >>)

(***************************************************************************)
(* C14  copyObjectAsync with deleteOriginal, moveObjectAsync               *)
(***************************************************************************)
\* the running call is copyObjectAsync(src, dst, true) or moveObjectAsync
MovesObject ==
    \/ call.fn = "moveObjectAsync"
    \/ call.fn = "copyObjectAsync" /\ call.del

\* the object keys of the two arguments of the running call
srcKey == ObjectKey(call.a)
dstKey == ObjectKey(call.b)

\* the requests of a move of an object that is there: the get of the
\* source, the put of its body at the destination, the delete of the
\* destination
MoveRequests ==
    << getObjectAsync(srcKey),
       putObjectAsync(dstKey, store0[srcKey]),
       DeleteObjectCommand(dstKey) >>

Refusal == Failure(fault[2], fault[2])

\* C15: objectExistsAsync(p) ends with TRUE when the head of the key
\* succeeds, with FALSE when it fails with NotFound, and with the error of
\* the bucket when the head is refused with another error.
\* directoryExistsAsync(p) ends with the error of a refused head; else with
\* TRUE when the marker is there; else with FALSE when the listing fails
\* with NotFound and with the error of the bucket when the listing is
\* refused with another error.
C15_ExistsErrors ==
    /\ (Done /\ call.fn = "objectExistsAsync")
            => ret = IF fault[1] = "Head" THEN Refusal
                     ELSE Bool(srcKey \in DOMAIN store0)
    /\ (Done /\ call.fn = "directoryExistsAsync")
            => ret = IF fault[1] = "Head" THEN Refusal
                     ELSE IF src \in DOMAIN store0 THEN Bool(TRUE)
                     ELSE IF fault[1] # "List" THEN Bool(MarkerOrListed(store0, src))
                     ELSE IF fault[2] = "NotFound" THEN Bool(FALSE)
                     ELSE Refusal

\* objectExistsAsync has ended with the AccessDenied of the bucket
C15_Witness ==
    /\ Done
    /\ call.fn = "objectExistsAsync"
    /\ fault = <<"Head", "AccessDenied">>
    /\ ret = Failure("AccessDenied", "AccessDenied")

(***************************************************************************)
(* C16 and C17  configure                                                  *)
(***************************************************************************)
\* C16: whenever a request is sent to the bucket, configured is true and
\* the client exists.
C16_ConfiguredBeforeSend ==
    [][Len(sent') > Len(sent) => (configured' /\ client')]_vars

\* a request was sent by a program that never called configure
C16_Witness ==
    /\ Len(sent) > 0
    /\ configures = 0
    /\ configured
    /\ client
    /\ configuration = "environment"

\* C17: once the configuration is set, no step changes it.
C17_ConfigurationKept ==
    [][configuration # "unset" => configuration' = configuration]_vars

(***************************************************************************)
(* C18  deleteObjectAsync of one path                                      *)
(***************************************************************************)
\* C18: deleteObjectAsync(p) with a string p of a directory goes on as
\* deleteDirectoryAsync of the normalized path, whose first request is the
\* listing of that directory; with a string p of an object it sends the
\* delete of the normalized key and no other request.
C18_DeleteObjectDispatch ==
    (call.fn = "deleteObjectAsync" /\ ~call.arr)
        => IF normalizePath(call.a, "undefined").directory
           THEN /\ Len(stack) > 0
                    => \/ stack[1].fn = "deleteObjectAsync" /\ stack[1].pc = "begin"
                       \/ stack[1].fn = "deleteDirectoryAsync" /\ stack[1].a = srcKey
                /\ Len(sent) > 0 => sent[1] = ListObjectsV2Command(srcKey, NoToken)
                /\ Done => Len(sent) > 0
           ELSE /\ IsPrefix(sent, <<Request("Delete", srcKey, << >>, NoToken, 0)>>)
                /\ Done => Len(sent) = 1

\* deleteObjectAsync of a directory path has deleted something
C18_Witness ==
    /\ Returned
    /\ call.fn = "deleteObjectAsync"
    /\ ~call.arr
    /\ normalizePath(call.a, "undefined").directory
    /\ store # store0

(***************************************************************************)
(* C19 and C20  deleteDirectoryAsync                                       *)
(***************************************************************************)
\* the one-level listing of the directory of the running call
Level == ListObjectsV2(store0, src, <<SLASH>>, NoToken)

\* C19: deleteDirectoryAsync(dir), when the one-level listing of dir has no
\* object key, sends no delete, calls deleteDirectoryAsync for no common
\* prefix, leaves the bucket as it was and returns null.
C19_DeleteDirectoryNothing ==
    (call.fn = "deleteDirectoryAsync" /\ Len(Level.Contents) = 0)
        => /\ SentOf(Writes) = {}
           /\ store = store0
           /\ Len(sent) <= 1
           /\ \A i \in 2..Len(stack) : stack[i].fn # "deleteDirectoryAsync"
           /\ Done => ret = Null

\* null for a directory that has a sub-directory and no object of its own
C19_Witness ==
    /\ Done
    /\ call.fn = "deleteDirectoryAsync"
    /\ Len(Level.Contents) = 0
    /\ Len(Level.CommonPrefixes) > 0
    /\ ret = Null

\* the request concerns keys under a common prefix of the listing
UnderListedPrefix(req) ==
    \E j \in 1..Len(Level.CommonPrefixes) :
        IF req.op = "DeleteMany"
        THEN \A i \in 1..Len(req.keys) : startsWith(req.keys[i], Level.CommonPrefixes[j])
        ELSE startsWith(req.key, Level.CommonPrefixes[j])

\* C20: when deleteDirectoryAsync(dir) has returned and the listing of dir
\* had object keys, the requests were: the listing of dir; then requests
\* under the listed common prefixes only, each prefix listed among them;
\* then one batch delete of the object keys of the listing; then the delete
\* of the marker key, whose answer is the value returned.
C20_DeleteDirectoryOrder ==
    (Returned /\ call.fn = "deleteDirectoryAsync" /\ Len(Level.Contents) > 0)
        => LET n == Len(sent)
           IN  /\ n >= 3
               /\ sent[1] = ListObjectsV2Command(src, NoToken)
               /\ \A i \in 2..(n - 2) : UnderListedPrefix(sent[i])
               /\ \A j \in 1..Len(Level.CommonPrefixes) :
                    \E i \in 2..(n - 2) :
                        sent[i] = ListObjectsV2Command(Level.CommonPrefixes[j], NoToken)
               /\ sent[n - 1] = Request("DeleteMany", << >>, Level.Contents, NoToken, 0)
               /\ sent[n] = Request("Delete", src, << >>, NoToken, 0)
               /\ ret = Output("delete", src)

\* a directory with an object and a sub-directory has been deleted
C20_Witness ==
    /\ Returned
    /\ call.fn = "deleteDirectoryAsync"
    /\ Len(Level.Contents) > 0
    /\ Len(Level.CommonPrefixes) > 0
    /\ Len(sent) > 3

(***************************************************************************)
(* C23  listObjectsAsync without a path                                    *)
(***************************************************************************)
\* C23: listObjectsAsync() without a path sends one list request with the
\* empty key as prefix and "/" as delimiter, and returns the keys and the
\* common prefixes of the top level of the bucket.
C23_ListRoot ==
    (call.fn = "listObjectsAsync" /\ call.a = UNDEFINED)
        => /\ IsPrefix(sent, <<Request("List", << >>, <<SLASH>>, NoToken, 0)>>)
           /\ Returned
                => LET root == ListObjectsV2(store0, << >>, <<SLASH>>, NoToken)
                   IN  /\ ret.value.Contents = root.Contents
                       /\ ret.value.CommonPrefixes = root.CommonPrefixes

(***************************************************************************)
(* C27  directoryExistsAsync of a directory with its marker                *)
(***************************************************************************)
\* C27: when the marker key of the directory is in the bucket and the head
\* requests are answered, directoryExistsAsync sends the head of the marker
\* and no other request, and returns true.
C27_MarkerAlone ==
    (call.fn = "directoryExistsAsync" /\ src \in DOMAIN store0 /\ fault[1] # "Head")
        => /\ IsPrefix(sent, <<Request("Head", src, << >>, NoToken, 0)>>)
           /\ Done => (ret = Bool(TRUE) /\ Len(sent) = 1)

\* true for a directory with its marker, in a bucket that refuses to list
C27_Witness ==
    /\ Done
    /\ call.fn = "directoryExistsAsync"
    /\ src \in DOMAIN store0
    /\ fault[1] = "List"
    /\ ret = Bool(TRUE)
    /\ Len(sent) = 1

(***************************************************************************)
(* C29  copyDirectoryAsync keeps the source                                *)
(***************************************************************************)
\* C29: copyDirectoryAsync(src, dst) with a destination that does not
\* overlap the source sends no delete, and every key outside dst is in the
\* bucket with its body exactly when it was so at the start of the call: in
\* particular every object under src.
C29_CopyKeepsSource ==
    (call.fn = "copyDirectoryAsync" /\ Disjoint(src, dst))
        => /\ SentOf({"Delete", "DeleteMany"}) = {}
           /\ \A k \in DOMAIN store0 :
                ~startsWith(k, dst) => (k \in DOMAIN store /\ store[k] = store0[k])
           /\ \A k \in DOMAIN store : ~startsWith(k, dst) => k \in DOMAIN store0

\* a directory with objects has been copied and the bucket has changed
C29_Witness ==
    /\ Returned
    /\ call.fn = "copyDirectoryAsync"
    /\ Disjoint(src, dst)
    /\ Cardinality(KeysUnder(store0, src)) > 1
    /\ store # store0

(***************************************************************************)
(* C25  one request at a time                                              *)
(***************************************************************************)
\* the keys of the requests of the log with operation op and a key of keys
KeysSent(op, keys) ==
    LET hits == SelectSeq(sent, LAMBDA r : r.op = op
                                    /\ \E j \in 1..Len(keys) : keys[j] = r.key)
    IN  [i \in 1..Len(hits) |-> hits[i].key]

\* the places in the log of the requests with operation op and a key of keys
PlacesSent(op, keys) ==
    {i \in 1..Len(sent) : sent[i].op = op /\ \E j \in 1..Len(keys) : keys[j] = sent[i].key}

\* C25: during copyDirectoryAsync, moveDirectoryAsync and
\* deleteDirectoryAsync at most one request is outstanding and a request is
\* sent only when none is; deleteDirectoryAsync lists the sub-directories
\* in the order of the listing, copyDirectoryAsync fetches the objects in
\* the order of the listing and then enters the sub-directories in the
\* order of the listing.
C25_OneAtATime ==
    [][ call.fn \in {"copyDirectoryAsync", "moveDirectoryAsync", "deleteDirectoryAsync"}
            => /\ Len(pending) <= 1
               /\ Len(sent') > Len(sent) => pending = << >>
               /\ call.fn = "deleteDirectoryAsync"
                    => IsPrefix(KeysSent("List", Level.CommonPrefixes),
                                Level.CommonPrefixes)
               /\ call.fn = "copyDirectoryAsync"
                    => /\ IsPrefix(KeysSent("Get", Level.Contents), Level.Contents)
                       /\ IsPrefix(KeysSent("Head", Level.CommonPrefixes),
                                   Level.CommonPrefixes)
                       /\ \A i \in PlacesSent("Get", Level.Contents) :
                            \A j \in PlacesSent("Head", Level.CommonPrefixes) : i < j
      ]_vars

\* the head of a sub-directory is outstanding after two objects were fetched
C25_Witness ==
    /\ call.fn = "copyDirectoryAsync"
    /\ Len(pending) = 1
    /\ pending[1].op = "Head"
    /\ PlacesSent("Head", Level.CommonPrefixes) # {}
    /\ Len(KeysSent("Get", Level.Contents)) = 2

(***************************************************************************)
(* The key substitution of copyDirectoryAsync on its own, lines 138-139    *)
(* and 143-144: a listed key under the source directory gets its key under *)
(* the destination; for a listed sub-directory the call goes on one level  *)
(* down with that sub-directory as source and its new key as destination.  *)
(***************************************************************************)
KeyChars == {"a", "s", SLASH}

\* what follows the source directory in a listed key
Suffixes == UNION {[1..n -> KeyChars] : n \in 0..MaxLen}

SourceKeys == { <<"a", SLASH>>, <<"s", SLASH>>, <<"s", SLASH, "a", SLASH>> }

TargetKeys ==
    { <<"d", SLASH>>, <<"a", SLASH, "d", SLASH>>, <<"s", SLASH, "a", SLASH>>,
      <<"d", DOLLAR, DOLLAR, SLASH>>, <<"d", DOLLAR, AMPERSAND, SLASH>>,
      <<"d", DOLLAR, SLASH>> }

\* what follows a listed sub-directory in a key listed one level down
SubSuffixes == { <<"a">>, <<"a", SLASH, "a">>, <<"s", SLASH, "a">> }

\* lines 138-139 and 143-144
copyDirectoryAsync_target_key ==
    /\ Len(keyOut) = 0
    /\ keyOut' = <<copyDirectoryAsync_target(keyArg[1], keyArg[2], keyArg[3])>>
    /\ UNCHANGED <<configured, configuration, client, store, stack, ret, sent,
                   answer, call, store0, prev, ops, normArg, normOut, fault,
                   configures, pending, used, parked, others, keyArg>>

\* line 144: copyDirectoryAsync(prefix, target of the prefix), whose listing
\* holds keys under the prefix
copyDirectoryAsync_target_descend ==
    /\ Len(keyOut) = 1
    /\ keyArg[2] \in SourceKeys
    /\ endsWith(keyArg[1], SLASH)
    /\ \E r \in SubSuffixes : keyArg' = <<keyArg[1] \o r, keyArg[1], keyOut[1]>>
    /\ keyOut' = << >>
    /\ UNCHANGED <<configured, configuration, client, store, stack, ret, sent,
                   answer, call, store0, prev, ops, normArg, normOut, fault,
                   configures, pending, used, parked, others>>

TargetInit ==
    /\ configured = FALSE
    /\ configuration = "unset"
    /\ client = FALSE
    /\ store = [k \in {} |-> 0]
    /\ stack = << >>
    /\ ret = None
    /\ sent = << >>
    /\ answer = None
    /\ call = NoCall
    /\ store0 = store
    /\ prev = Ended(NoCall, None)
    /\ ops = 0
    /\ normArg = << << >>, "undefined" >>
    /\ normOut = << >>
    /\ fault = NoFault
    /\ configures = 0
    /\ pending = << >>
    /\ used = {}
    /\ parked = << >>
    /\ others = 0
    /\ keyArg \in { <<S \o r, S, D>> : S \in SourceKeys, D \in TargetKeys, r \in Suffixes }
    /\ keyOut = << >>

TargetNext == copyDirectoryAsync_target_key \/ copyDirectoryAsync_target_descend

TargetSpec == TargetInit /\ [][TargetNext]_vars

(***************************************************************************)
(* C24  the key under the destination                                      *)
(***************************************************************************)
\* C24: the listed key S + r of copyDirectoryAsync(S, D) is copied to the
\* key D + r, whether or not S occurs again in r; so it is one level down,
\* for the keys under a listed sub-directory.
C24_LeadingOnly ==
    Len(keyOut) = 1
        => keyOut[1] = keyArg[3] \o slice(keyArg[1], Len(keyArg[2]))

\* the destination key holds none of the patterns of a replacement
Plain(key) ==
    \A i \in 1..(Len(key) - 1) :
        key[i] = DOLLAR => key[i + 1] \notin {DOLLAR, AMPERSAND, BACKTICK, QUOTE}

\* C24 for plain destinations: when the destination key D holds no
\* replacement pattern ($$, $&, $`, $'), the listed key S + r is copied to
\* the key D + r, whether or not S occurs again in r.
C24_LeadingOnlyPlain ==
    (Len(keyOut) = 1 /\ Plain(keyArg[3]))
        => keyOut[1] = keyArg[3] \o slice(keyArg[1], Len(keyArg[2]))

\* the key of a source directory that occurs again in what follows it
C24_Witness ==
    /\ Len(keyOut) = 1
    /\ Plain(keyArg[3])
    /\ indexOf(slice(keyArg[1], Len(keyArg[2])), keyArg[2]) > 0
    /\ keyOut[1] = keyArg[3] \o slice(keyArg[1], Len(keyArg[2]))
    /\ keyOut[1] # replaceEvery(keyArg[1], keyArg[2], keyArg[3])

(***************************************************************************)
(* A bucket that is shared: another client of the bucket deletes an object *)
(* at any moment, also between two requests of a call.                     *)
(***************************************************************************)
otherClient_deleteObject ==
    /\ others < MaxOthers
    /\ \E k \in DOMAIN store : store' = Without(store, {k})
    /\ others' = others + 1
    /\ UNCHANGED <<configured, configuration, client, stack, ret, sent, answer,
                   call, store0, prev, ops, normArg, normOut, fault, configures,
                   pending, used, parked, keyArg, keyOut>>

\* the shared bucket holds every key of the callers' buckets
SharedInit ==
    /\ Init
    /\ DOMAIN store = InitialKeys

SharedNext == otherClient_deleteObject \/ Call \/ Step

SharedSpec == SharedInit /\ [][SharedNext]_vars

(***************************************************************************)
(* C21 and C22  what listObjectsAsync returns                              *)
(***************************************************************************)
\* C21: the listing listObjectsAsync returns is not marked truncated.
C21_NotTruncated ==
    (Returned /\ call.fn = "listObjectsAsync") => ret.value.IsTruncated = FALSE

\* C22: the listing listObjectsAsync returns holds every key and every
\* common prefix of the page the bucket answered last, as it holds those of
\* the first page.
C22_EveryPage ==
    (Returned /\ call.fn = "listObjectsAsync")
        => /\ \A i \in 1..Len(answer.value.Contents) :
                \E j \in 1..Len(ret.value.Contents) :
                    ret.value.Contents[j] = answer.value.Contents[i]
           /\ \A i \in 1..Len(answer.value.CommonPrefixes) :
                \E j \in 1..Len(ret.value.CommonPrefixes) :
                    ret.value.CommonPrefixes[j] = answer.value.CommonPrefixes[i]

(***************************************************************************)
(* A bucket that refuses requests of copyDirectoryAsync and of             *)
(* deleteDirectoryAsync with AccessDenied: every request of one operation, *)
(* or the request of one operation for one key.                            *)
(***************************************************************************)
DirectoryFaults ==
    { <<"List", "AccessDenied">>,
      <<"List", "AccessDenied", <<"s", SLASH, "u", SLASH>> >>,
      <<"Get", "AccessDenied", <<"s", SLASH, "u", SLASH, "a">> >>,
      <<"Put", "AccessDenied", <<"d", SLASH, "u", SLASH, "a">> >>,
      <<"Delete", "AccessDenied">> }

call_copyDirectoryAsync_refused ==
    \E source \in DirectoryPaths, destination \in DestinationPaths,
       refused \in DirectoryFaults :
        InvokeWith(Frame("copyDirectoryAsync", source, destination, FALSE), refused)

call_deleteDirectoryAsync_refused ==
    \E dir \in DirectoryPaths, refused \in DirectoryFaults :
        InvokeWith(Frame("deleteDirectoryAsync", dir, << >>, FALSE), refused)

FaultInit ==
    /\ Init
    /\ DOMAIN store = ConfiguredKeys

FaultNext ==
    \/ call_copyDirectoryAsync_refused
    \/ call_deleteDirectoryAsync_refused
    \/ Call
    \/ Step

FaultSpec == FaultInit /\ [][FaultNext]_vars

(***************************************************************************)
(* C26  an error of the bucket in copyDirectoryAsync, deleteDirectoryAsync *)
(***************************************************************************)
\* the places in the log of the requests the bucket refuses
RefusedAt == {i \in 1..Len(sent) : Refused(sent[i])}

\* the places in the log of the requests the bucket has carried out
CarriedOut == (1..(Len(sent) - Len(pending))) \ RefusedAt

\* request req writes or deletes key k
Touches(req, k) ==
    \/ req.op \in {"Put", "Delete"} /\ req.key = k
    \/ req.op = "DeleteMany" /\ \E j \in 1..Len(req.keys) : req.keys[j] = k

\* what the request at place i wrote or deleted is as that request left it,
\* unless a later request of the call wrote or deleted the same key
Stands(i) ==
    \A k \in DOMAIN store \cup DOMAIN store0 \cup {sent[i].key} :
        (Touches(sent[i], k) /\ \A j \in CarriedOut : j > i => ~Touches(sent[j], k))
            => IF sent[i].op = "Put"
               THEN k \in DOMAIN store /\ store[k] = sent[i].body
               ELSE k \notin DOMAIN store

\* C26: when the bucket refuses a request of copyDirectoryAsync or
\* deleteDirectoryAsync with AccessDenied, that request is the last one of
\* the call, the call ends with that error, and what the requests before it
\* wrote and deleted stays written and deleted.
C26_FailureEnds ==
    (call.fn \in {"copyDirectoryAsync", "deleteDirectoryAsync"} /\ fault \in DirectoryFaults)
        => /\ \A i \in RefusedAt : i = Len(sent)
           /\ (Done /\ RefusedAt # {}) => ret = Failure(fault[2], fault[2])
           /\ \A i \in CarriedOut : Stands(i)

\* copyDirectoryAsync has ended with the error of a get, after it has
\* written an object
C26_Witness ==
    /\ Done
    /\ call.fn = "copyDirectoryAsync"
    /\ fault[1] = "Get"
    /\ RefusedAt # {}
    /\ ret = Failure("AccessDenied", "AccessDenied")
    /\ store # store0

\* deleteDirectoryAsync has ended with the error of a delete, after it has
\* deleted an object
C26_WitnessDelete ==
    /\ Done
    /\ call.fn = "deleteDirectoryAsync"
    /\ fault[1] = "Delete"
    /\ RefusedAt # {}
    /\ ret = Failure("AccessDenied", "AccessDenied")
    /\ store # store0

(***************************************************************************)
(* Two operations at a time: the program starts a second operation right   *)
(* after the first, without awaiting it; whenever the one that runs        *)
(* reaches an await or ends, the other one may go on.  Nothing calls       *)
(* configure.                                                              *)
(***************************************************************************)
\* the operations the program starts while another one is suspended
ConcurrentCalls ==
    { Frame("objectExistsAsync", <<"s", SLASH, "a">>, << >>, FALSE),
      Frame("copyObjectAsync", <<"s", SLASH, "a">>, <<"d", SLASH, "a">>, FALSE),
      Frame("makeDirectoryAsync", <<"x", SLASH>>, << >>, FALSE) }

\* the program calls a method right after another, whose first request is
\* on its way to the bucket
call_concurrently ==
    /\ ops = 1
    /\ Len(stack) > 0
    /\ top.wait
    /\ Len(sent) = 1
    /\ parked = << >>
    /\ parked' = << <<stack, ret, pending>> >>
    /\ \E f \in ConcurrentCalls : stack' = <<f>>
    /\ ret' = None
    /\ pending' = << >>
    /\ UNCHANGED <<configured, configuration, client, store, sent, answer, call,
                   store0, prev, ops, normArg, normOut, fault, configures, used,
                   others, keyArg, keyOut>>

\* the operation that runs is at an await or has ended: the other one goes on
resume ==
    /\ Len(parked) = 1
    /\ stack' = parked[1][1]
    /\ ret' = parked[1][2]
    /\ pending' = parked[1][3]
    /\ parked' = IF stack = << >> THEN << >> ELSE << <<stack, ret, pending>> >>
    /\ UNCHANGED <<configured, configuration, client, store, sent, answer, call,
                   store0, prev, ops, normArg, normOut, fault, configures, used,
                   others, keyArg, keyOut>>

ConcInit ==
    /\ Init
    /\ DOMAIN store = ConfiguredKeys

\* the operations that are followed two at a time: the existence probes,
\* copyObjectAsync and makeDirectoryAsync, with the calls they make
ConcNext ==
    \/ call_concurrently
    \/ resume
    \/ call_objectExistsAsync
    \/ call_directoryExistsAsync
    \/ call_copyObjectAsync
    \/ call_makeDirectoryAsync
    \/ listObjectsAsync_step
    \/ objectExistsAsync_begin
    \/ directoryExistsAsync_begin
    \/ directoryExistsAsync_probed
    \/ directoryExistsAsync_listed
    \/ makeDirectoryAsync_begin
    \/ makeDirectoryAsync_checked
    \/ deleteObjectAsync_begin
    \/ copyObjectAsync_begin
    \/ copyObjectAsync_put
    \/ copyObjectAsync_deleted_return
    \/ propagate

ConcSpec == ConcInit /\ [][ConcNext]_vars

(***************************************************************************)
(* C28  lazy configuration of operations that run at the same time         *)
(***************************************************************************)
\* C28: when operations run at the same time and nothing calls configure,
\* no operation is suspended between the test of the configured flag and
\* the assignments of configure, so that in every state the flag is set
\* only with a client and a configuration; every request of every
\* operation is sent with the flag set, with a client and with a
\* configuration, and all of them with the same configuration.
C28_LazyBenign ==
    /\ configured => (client /\ configuration # "unset")
    /\ \A u \in used : u[1] /\ u[2] /\ u[3] # "unset"
    /\ \A u \in used, v \in used : u[3] = v[3]

\* two operations have a request outstanding at the same time
C28_Witness ==
    /\ Len(parked) = 1
    /\ Len(parked[1][3]) = 1
    /\ Len(pending) = 1
    /\ Len(sent) >= 2
    /\ used # {}

(***************************************************************************)
(* Callers that copy a directory to a destination two levels below it, and *)
(* to a destination whose name holds a replacement pattern.                *)
(***************************************************************************)
FarDestinations ==
    { <<"s", SLASH, "u", SLASH, "v", SLASH>>, <<DOLLAR, AMPERSAND, "x", SLASH>> }

\* their bucket: an object in s/ and in two sub-directories of s/
FarKeys ==
    { <<"s", SLASH, "a">>, <<"s", SLASH, "u", SLASH, "a">>,
      <<"s", SLASH, "x", SLASH, "a">> }

call_copyDirectoryAsync_far ==
    \E destination \in FarDestinations :
        Invoke(Frame("copyDirectoryAsync", <<"s", SLASH>>, destination, FALSE))

FarInit ==
    /\ configured = FALSE
    /\ configuration = "unset"
    /\ client = FALSE
    /\ store = [k \in FarKeys |-> InitialBody(k)]
    /\ stack = << >>
    /\ ret = None
    /\ sent = << >>
    /\ answer = None
    /\ call = NoCall
    /\ store0 = store
    /\ prev = Ended(NoCall, None)
    /\ ops = 0
    /\ normArg = << << >>, "undefined" >>
    /\ normOut = << >>
    /\ fault = NoFault
    /\ configures = 0
    /\ pending = << >>
    /\ used = {}
    /\ parked = << >>
    /\ others = 0
    /\ keyArg = << >>
    /\ keyOut = << >>

FarNext == call_copyDirectoryAsync_far \/ Call \/ Step

FarSpec == FarInit /\ [][FarNext]_vars

(***************************************************************************)
(* C30  copyDirectoryAsync and deleteDirectoryAsync come to an end         *)
(***************************************************************************)
\* number of directories above a key
Depth(key) == Cardinality({i \in 1..Len(key) : key[i] = SLASH})

\* the deepest of the keys of the bucket when the call started and of the
\* two directories of the call
TreeDepth ==
    LET depths == {Depth(k) : k \in DOMAIN store0 \cup {src, dst}}
    IN  CHOOSE d \in depths : \A e \in depths : e <= d

\* number of pending calls of method fn
Nesting(fn) == Cardinality({i \in 1..Len(stack) : stack[i].fn = fn})

\* some listing of the call had more than one page
ManyPages ==
    \E i \in 1..Len(stack) : stack[i].fn = "listObjectsAsync" /\ stack[i].pc = "merge"

\* C30: while every listing has one page, copyDirectoryAsync and
\* deleteDirectoryAsync descend no deeper than the tree is deep: the calls
\* of copyDirectoryAsync and of deleteDirectoryAsync nested in one another
\* are never more than the levels of the deepest key that was in the bucket
\* and of the two directories of the call, plus one; deeper calls would
\* walk directories the call has made itself, without end.
C30_Terminates ==
    (call.fn \in {"copyDirectoryAsync", "deleteDirectoryAsync"} /\ ~ManyPages)
        => /\ Nesting("copyDirectoryAsync") <= TreeDepth + 1
           /\ Nesting("deleteDirectoryAsync") <= TreeDepth + 1

=============================================================================
